---- MODULE Spec2Model ----
(***************************************************************************)
(* The coastal morphodynamics engine of the Interactive Beach Simulation   *)
(* (components/BeachSimulation.tsx) and its driver.                        *)
(*                                                                         *)
(* Numbers.  The source computes in IEEE doubles; the model computes in    *)
(* fixed point:                                                            *)
(*   lengths, depths, levels, velocities   1e-6 (micrometres, um/s)        *)
(*   sediment transport rate qs            1e-9 m^2/s                      *)
(*   shear stress tau                      1e-7 Pa                         *)
(*   angles                                1e-6 rad                        *)
(*   simulation time                       1e-2 s                          *)
(*   slider values                         in slider steps (see Params)    *)
(* A product or quotient is rounded to the unit of its result.  NaN is a   *)
(* value of its own and follows the rules of JavaScript: arithmetic with   *)
(* NaN gives NaN, Math.max/Math.min with NaN give NaN, every comparison    *)
(* with NaN is false.  Where a test of the source cannot be decided from   *)
(* the fixed-point numbers (the activation of the transport, Undecided,    *)
(* and the depth test of the velocities, AtWaterline), the model takes     *)
(* every outcome that the doubles can give.                                *)
(***************************************************************************)
EXTENDS Integers, Sequences, FiniteSets, TLC

\* ------------------------------------------------------------ arithmetic

NaN == -2147483647

IsNaN(a) == a = NaN

Abs(a) == IF IsNaN(a) THEN NaN ELSE IF a < 0 THEN -a ELSE a

Sign(a) == IF IsNaN(a) THEN NaN ELSE IF a > 0 THEN 1 ELSE IF a < 0 THEN -1 ELSE 0

Add(a, b) == IF IsNaN(a) \/ IsNaN(b) THEN NaN ELSE a + b

Sub(a, b) == IF IsNaN(a) \/ IsNaN(b) THEN NaN ELSE a - b

Neg(a) == IF IsNaN(a) THEN NaN ELSE -a

Max(a, b) == IF IsNaN(a) \/ IsNaN(b) THEN NaN ELSE IF a >= b THEN a ELSE b

Min(a, b) == IF IsNaN(a) \/ IsNaN(b) THEN NaN ELSE IF a <= b THEN a ELSE b

Gt(a, b) == ~IsNaN(a) /\ ~IsNaN(b) /\ a > b

Lt(a, b) == ~IsNaN(a) /\ ~IsNaN(b) /\ a < b

Le(a, b) == ~IsNaN(a) /\ ~IsNaN(b) /\ a <= b

Ge(a, b) == ~IsNaN(a) /\ ~IsNaN(b) /\ a >= b

\* a * b / 10^6 for a, b >= 0, rounded to nearest, without an intermediate
\* product beyond 32 bits.
MulU(a, b) ==
    LET ah == a \div 1000
        al == a % 1000
        bh == b \div 1000
        bl == b % 1000
    IN  ah * bh + (ah * bl + al * bh + (al * bl + 500000) \div 1000) \div 1000

\* The product of two fixed-point numbers.
Mul(a, b) ==
    IF IsNaN(a) \/ IsNaN(b) THEN NaN
    ELSE Sign(a) * Sign(b) * MulU(Abs(a), Abs(b))

RECURSIVE DivDigits(_, _, _)
DivDigits(r, b, n) ==
    IF n = 0 THEN 0
    ELSE LET q  == (r * 10) \div b
             e  == CASE n = 6 -> 100000 [] n = 5 -> 10000 [] n = 4 -> 1000
                     [] n = 3 -> 100 [] n = 2 -> 10 [] OTHER -> 1
         IN  q * e + DivDigits((r * 10) % b, b, n - 1)

\* a * 10^6 / b for a >= 0, b > 0, by long division.
DivU(a, b) == (a \div b) * 1000000 + DivDigits(a % b, b, 6)

\* The quotient of two fixed-point numbers, b > 0.
Div(a, b) ==
    IF IsNaN(a) \/ IsNaN(b) THEN NaN ELSE Sign(a) * DivU(Abs(a), b)

\* a / n for a plain number n > 0, rounded towards zero.
Quot(a, n) == IF IsNaN(a) THEN NaN ELSE Sign(a) * (Abs(a) \div n)

TwoPi == 6283185

Pi == 3141593

HalfPi == 1570796

\* Math.sin of an angle in 1e-6 rad: reduction to [-pi/2, pi/2], then the
\* Taylor polynomial to x^11 in Horner form.
Sin(x) ==
    LET r0 == x % TwoPi
        r1 == IF r0 > Pi THEN r0 - TwoPi ELSE r0
        r2 == IF r1 > HalfPi THEN Pi - r1
              ELSE IF r1 < -HalfPi THEN -Pi - r1 ELSE r1
        z  == MulU(Abs(r2), Abs(r2))
        t5 == 1000000 - (z + 55) \div 110
        t4 == 1000000 - (MulU(z, t5) + 36) \div 72
        t3 == 1000000 - (MulU(z, t4) + 21) \div 42
        t2 == 1000000 - (MulU(z, t3) + 10) \div 20
        t1 == 1000000 - (MulU(z, t2) + 3) \div 6
    IN  Mul(r2, t1)

\* Math.cos.
Cos(x) == Sin(x + HalfPi)

\* mid * mid <= y * 10^6, without an intermediate product beyond 32 bits:
\* with mid = mh * 1000 + ml and 2 * mh * ml = ch * 1000 + cl, mid * mid is
\* (mh * mh + ch) * 10^6 + cl * 1000 + ml * ml.
SquareAtMost(mid, y) ==
    LET mh == mid \div 1000
        ml == mid % 1000
        cross == 2 * mh * ml
        low == (cross % 1000) * 1000 + ml * ml
        whole == mh * mh + cross \div 1000 + low \div 1000000
    IN  whole < y \/ (whole = y /\ low % 1000000 = 0)

\* The largest m in lo .. hi - 1 with m * m <= y * 10^6: the root of the
\* fixed-point number y, rounded down.
RECURSIVE SqrtSearch(_, _, _)
SqrtSearch(lo, hi, y) ==
    IF hi - lo <= 1 THEN lo
    ELSE LET mid == (lo + hi) \div 2
         IN  IF SquareAtMost(mid, y) THEN SqrtSearch(mid, hi, y)
             ELSE SqrtSearch(lo, mid, y)

\* Math.sqrt for y up to 9, rounded to nearest: the root of 4 * y, rounded
\* down, is halved and rounded up. NaN below zero.
Sqrt(y) ==
    IF IsNaN(y) \/ y < 0 THEN NaN
    ELSE (SqrtSearch(0, 6000001, 4 * y) + 1) \div 2

\* Math.pow(y, 1.5): NaN for a negative base.
Pow15(y) == IF IsNaN(y) \/ y < 0 THEN NaN ELSE MulU(y, Sqrt(y))

\* ------------------------------------------------------------ parameters

\* SimulationParams, each field in steps of its slider:
\*   tidalRange 0.1 m, tidalPeriod 0.5 h, beachSlope 0.001, grainSize 0.1 mm,
\*   waveHeight 0.1 m, wavePeriod 0.5 s, simulationSpeed 0.1, sedimentSupply 0.1
DefaultParams ==
    [tidalRange |-> 20, tidalPeriod |-> 24, beachSlope |-> 50, grainSize |-> 5,
     waveHeight |-> 10, wavePeriod |-> 16, simulationSpeed |-> 10,
     sedimentSupply |-> 10]

\* The parameters of the High Transport preset.
PresetParams ==
    [tidalRange |-> 40, tidalPeriod |-> 16, beachSlope |-> 80, grainSize |-> 2,
     waveHeight |-> 25, wavePeriod |-> 12, simulationSpeed |-> 20,
     sedimentSupply |-> 15]

\* The range of each slider (min and max, in slider steps).
SliderRange ==
    [tidalRange |-> 5 .. 50, tidalPeriod |-> 12 .. 48,
     beachSlope |-> {10 + 5 * j : j \in 0 .. 18}, grainSize |-> 1 .. 20,
     waveHeight |-> 2 .. 30, wavePeriod |-> 8 .. 32,
     simulationSpeed |-> 1 .. 30, sedimentSupply |-> 1 .. 20]

\* ------------------------------------------------------------ the grid

gridSize == 200

domainLength == 1000

dx == domainLength \div gridSize

\* dt = 0.1 s, in 1e-2 s
dt == 10

Cells == 0 .. gridSize - 1

\* Bedrock profile (fixed base), in um, for x in m and the slope in 0.001.
BedrockLevel(x, beachSlope) ==
    IF x < 300 THEN -8000000 + x * 10000
    ELSE IF x < 600 THEN -5000000 + (x - 300) * beachSlope * 1000
    ELSE -5000000 + 300 * beachSlope * 1000 + (x - 600) * beachSlope * 500

\* Sediment thickness by location, in um, the supply in 0.1.
SedimentThickness(x, sedimentSupply) ==
    IF x < 200 THEN 20000 * sedimentSupply
    ELSE IF x < 400 THEN 80000 * sedimentSupply
    ELSE IF x < 700 THEN 150000 * sedimentSupply
    ELSE 100000 * sedimentSupply

\* Sediment thickness of the grid that the High Transport preset installs.
PresetThickness(x) ==
    IF x < 200 THEN 30000 * 15
    ELSE IF x < 400 THEN 120000 * 15
    ELSE IF x < 700 THEN 200000 * 15
    ELSE 150000 * 15

\* One GridPoint as the initializers push it.
GridPoint(x, bedrockLevel, sedimentThickness) ==
    LET zb == bedrockLevel + sedimentThickness
    IN  [x |-> x, h |-> Max(0, -zb), u |-> 0, zb |-> zb, qs |-> 0,
         sedimentThickness |-> sedimentThickness,
         bedrockLevel |-> bedrockLevel,
         initialSedimentThickness |-> sedimentThickness,
         cumulativeChange |-> 0]

\* The grid of the useState initializer.
InitialGrid(p) ==
    [i \in Cells |->
        GridPoint(i * dx, BedrockLevel(i * dx, p.beachSlope),
                  SedimentThickness(i * dx, p.sedimentSupply))]

\* The grid of the effect on [params.beachSlope, params.sedimentSupply].
EffectGrid(p) ==
    [i \in Cells |->
        GridPoint(i * dx, BedrockLevel(i * dx, p.beachSlope),
                  SedimentThickness(i * dx, p.sedimentSupply))]

\* A reset that took the thicknesses of the High Transport preset instead of
\* those of the current sedimentSupply.
ResetGridPresetThickness(p) ==
    [i \in Cells |->
        GridPoint(i * dx, BedrockLevel(i * dx, p.beachSlope),
                  PresetThickness(i * dx))]

\* A reset that took the shape parameters of the first render instead of the
\* current ones.
ResetGridFirstShape(p) ==
    [i \in Cells |->
        GridPoint(i * dx, BedrockLevel(i * dx, DefaultParams.beachSlope),
                  SedimentThickness(i * dx, DefaultParams.sedimentSupply))]

\* The grid of resetSimulation.
ResetGrid(p) ==
    [i \in Cells |->
        GridPoint(i * dx, BedrockLevel(i * dx, p.beachSlope),
                  SedimentThickness(i * dx, p.sedimentSupply))]

\* The grid of the High Transport preset's 100 ms timer.
PresetGrid ==
    [i \in Cells |->
        GridPoint(i * dx, BedrockLevel(i * dx, 80), PresetThickness(i * dx))]

\* ------------------------------------------------------------ forcing

\* (tidalRange / 2) * sin(2 pi time / (tidalPeriod * 3600)); the angle is
\* 2 pi / 180000 = 34.906585e-6 rad per 1e-2 s and half hour of period.
getTidalLevel(time, p) ==
    Mul(p.tidalRange * 50000, Sin(MulU(34906585, time) \div p.tidalPeriod))

\* 2 pi time / wavePeriod - x / 100 in 1e-6 rad. The period is 50 * wavePeriod
\* in 1e-2 s, and whole periods of time are dropped before the multiplication.
WavePhase(time, x, p) ==
    MulU(125663706, 1000 * (time % (50 * p.wavePeriod))) \div p.wavePeriod
        - x * 10000

\* waveHeight * sin(2 pi time / wavePeriod - x / 100)
getWaveLevel(time, x, p) ==
    Mul(p.waveHeight * 100000, Sin(WavePhase(time, x, p)))

\* waveHeight * 0.2 * cos(2 pi time / wavePeriod - x / 100)
WaveForce(time, x, p) ==
    Mul(p.waveHeight * 20000, Cos(WavePhase(time, x, p)))

\* ------------------------------------------------------------ transport

\* rho * g * h * |u| * u / (h + 0.01) in 1e-7 Pa. Only |tau| up to
\* 9 * (tau_crit + 0.0001) < 9 Pa is told apart by the caller (the excess
\* tau_star - 1 is cut at 8), and with h > 0.01 a speed of 0.046 m/s already
\* gives more than 10 Pa, so |u| enters cut at 0.046 m/s.
ShearStress(u, h) ==
    IF IsNaN(u) \/ IsNaN(h) THEN NaN
    ELSE IF u = 0 \/ h = 0 THEN 0
    ELSE LET ua == Min(Abs(u), 46000)
         IN  Sign(u) * MulU(MulU(981 * ua, 100 * ua), DivU(h, h + 10000))

\* 0.03 * (rho_s - rho) * g * d50 = 0.0485595 Pa per 0.1 mm, in 1e-7 Pa.
CriticalShear(p) == 485595 * p.grainSize

\* The numbers of the model stand for the doubles of the code within the
\* resolution of the model: a velocity in 1e-6 m/s for a double within
\* 2e-6 m/s of it, for which |tau| lies within 2 * 9810 * 2e-6 * (|u| + 2e-6)
\* Pa of the model's |tau|. The tests of lines 202 and 203 cannot be decided
\* from the model's numbers when the double may lie on either side of
\* tau_crit or of tau_crit + 0.0001: the code then gives 0 (not active), NaN
\* (active with tau_star < 1) or a rate just above 0 (active with
\* tau_star >= 1), depending on the double.
Undecided(tau, u, h, sedimentThickness, p) ==
    /\ ~IsNaN(tau)
    /\ Gt(h, 10000)
    /\ Gt(sedimentThickness, 1000)
    /\ LET slack == (3924 * (Min(Abs(u), 46000) + 2)) \div 10000 + 2
       IN  /\ Abs(tau) + slack > CriticalShear(p)
           /\ Abs(tau) - slack < CriticalShear(p) + 1000

\* A transport rate that ignored how much sediment the cell has.
calculateSedimentTransportUnthrottled(u, h, sedimentThickness, p) ==
    LET tau == ShearStress(u, h)
        tau_crit == CriticalShear(p)
        rate ==
            IF Gt(Abs(tau), tau_crit) /\ Gt(h, 10000)
            THEN LET tau_star == DivU(Abs(tau), tau_crit + 1000)
                     coeff == (Sqrt(981 * p.grainSize) * p.grainSize) \div 2
                     excess == Pow15(Min(tau_star - 1000000, 8000000))
                     transport == Mul(Mul(coeff, excess), Sign(u) * 1000000)
                 IN  Max(-20000000, Min(20000000, transport))
            ELSE 0
    IN  IF Undecided(tau, u, h, sedimentThickness, p) THEN {rate, 0, NaN}
        ELSE {rate}

\* Bedload transport calculation (simplified Meyer-Peter Muller), in 1e-9:
\* the rates that the code can return for the doubles that u, h and
\* sedimentThickness stand for (one rate unless the tests are undecided).
calculateSedimentTransport(u, h, sedimentThickness, p) ==
    LET tau == ShearStress(u, h)
        tau_crit == CriticalShear(p)
        availabilityFactor == Min(1000000, Mul(sedimentThickness, 50000000))
        rate ==
            IF /\ Gt(Abs(tau), tau_crit)
               /\ Gt(h, 10000)
               /\ Gt(sedimentThickness, 1000)
            THEN LET tau_star == DivU(Abs(tau), tau_crit + 1000)
                     \* 5.0 * sqrt(g * d50) * d50, g * d50 = 981 um per 0.1 mm
                     coeff == (Sqrt(981 * p.grainSize) * p.grainSize) \div 2
                     excess == Pow15(Min(tau_star - 1000000, 8000000))
                     transport ==
                         Mul(Mul(Mul(coeff, excess), Sign(u) * 1000000),
                             availabilityFactor)
                 IN  Max(-20000000, Min(20000000, transport))
            ELSE 0
    IN  IF Undecided(tau, u, h, sedimentThickness, p) THEN {rate, 0, NaN}
        ELSE {rate}

\* ------------------------------------------------------------ one step

\* The function f as a table of its values (f @@ << >> is f): later passes
\* read the table instead of evaluating f's definition at every use.
Table(f) == f @@ << >>

\* Apply boundary conditions and update water levels.
DepthPass(g, currentTime, p) ==
    LET tideLevel == getTidalLevel(currentTime, p)
    IN  [i \in Cells |->
            [g[i] EXCEPT !.h =
                Max(0, Sub(Add(tideLevel, getWaveLevel(currentTime, g[i].x, p)),
                           g[i].zb))]]

\* The depth of a cell in um stands for a double within DepthSlack of it:
\* Sin is within 2e-6 of Math.sin and its angle within 1e-6 rad, which the
\* amplitudes tidalRange / 2 and waveHeight scale, and the products are
\* rounded.
DepthSlack(p) ==
    (3 * (p.tidalRange * 50000 + p.waveHeight * 100000)) \div 1000000 + 2

\* The test h > 0.05 of line 227 cannot be decided from the model's depth
\* when the double may lie on either side of 0.05.
AtWaterline(h, p) ==
    ~IsNaN(h) /\ h >= 50000 - DepthSlack(p) /\ h <= 50000 + DepthSlack(p)

\* Shallow water equations (simplified): the new velocities that the code can
\* give cell i for the doubles that the depths stand for (one velocity unless
\* the cell is at the waterline). dh_dx is kept in 1e-7 (the difference of
\* two depths in um over 2 * dx = 10 m).
NewVelocity(g, i, currentTime, p) ==
    IF i >= 1 /\ i <= gridSize - 2
          /\ (Gt(g[i].h, 50000) \/ AtWaterline(g[i].h, p))
    THEN LET dh_dx == Quot(Mul(Sub(g[i + 1].h, g[i - 1].h), 10000000), 2 * dx)
             friction ==
                 IF g[i].u = 0 THEN 0
                 ELSE Div(Mul(Mul(20000, g[i].u), Abs(g[i].u)),
                          Add(g[i].h, 10000))
             waveForce == WaveForce(currentTime, g[i].x, p)
             accel ==
                 Sub(Add(Mul(9810000, dh_dx), Mul(friction, 10000000)),
                     Mul(waveForce, 10000000))
             v == Sub(g[i].u, Quot(accel, 100))
             limited == Max(-2000000, Min(2000000, v))
         IN  IF AtWaterline(g[i].h, p) THEN {limited, 0} ELSE {limited}
    ELSE {0}

\* Update velocities and calculate sediment transport, then the boundary
\* conditions for velocity: the grids that the pass can leave, one for every
\* choice of a velocity and a rate in the cells whose tests are undecided.
TransportPass(g, currentTime, p) ==
    LET moved ==
            Table([i \in Cells |->
                UNION {{[u |-> v, qs |-> q] :
                            q \in calculateSedimentTransport(
                                      v, g[i].h, g[i].sedimentThickness, p)} :
                          v \in NewVelocity(g, i, currentTime, p)}])
        open == {i \in Cells : Cardinality(moved[i]) > 1}
        outcomes == {c \in [open -> UNION {moved[i] : i \in open}] :
                        \A i \in open : c[i] \in moved[i]}
    IN  {[i \in Cells |->
             LET m == IF i \in open THEN c[i]
                      ELSE CHOOSE only \in moved[i] : TRUE
             IN  [g[i] EXCEPT
                     !.u = IF i \in {0, gridSize - 1} THEN 0 ELSE m.u,
                     !.qs = m.qs]] : c \in outcomes}

\* A bed change without the scaling factor 10.
BedChangeUnscaled(g, i, p) ==
    IF i >= 1 /\ i <= gridSize - 2
    THEN LET dqs_dx == Quot(Mul(Sub(g[i + 1].qs, g[i - 1].qs), 10000000), 2 * dx)
             dzb_dt == Quot(Mul(Neg(dqs_dx), 5000000), 4)
             bedChange == Quot(Mul(dzb_dt, p.simulationSpeed * 1000000), 1000000)
         IN  Max(-100000, Min(100000, bedChange))
    ELSE 0

\* Exner equation: the bed change of cell i in um, limited to 0.1 m.
\* dqs_dx = (qs[i+1] - qs[i-1]) / (2 * dx) in 1e-10, dzb_dt = -dqs_dx / 0.8,
\* bedChange = dzb_dt * dt * simulationSpeed * 10.
BedChange(g, i, p) ==
    IF i >= 1 /\ i <= gridSize - 2
    THEN LET dqs_dx == Quot(Mul(Sub(g[i + 1].qs, g[i - 1].qs), 10000000), 2 * dx)
             dzb_dt == Quot(Mul(Neg(dqs_dx), 5000000), 4)
             bedChange == Quot(Mul(dzb_dt, p.simulationSpeed * 1000000), 100000)
         IN  Max(-100000, Min(100000, bedChange))
    ELSE 0

\* The cap of the sediment thickness: 8 m under water, 12 m on the beach.
RegionCap(x) == IF x < 300 THEN 8000000 ELSE 12000000

\* A bed update that also moved the reference thickness of the cell.
ApplyBedChangeRebased(c, rawChange) ==
    LET oldThickness == c.sedimentThickness
        newSedimentThickness == Max(0, Add(oldThickness, rawChange))
        limited == Min(RegionCap(c.x), newSedimentThickness)
    IN  [c EXCEPT
            !.sedimentThickness = limited,
            !.initialSedimentThickness = limited,
            !.cumulativeChange =
                Add(c.cumulativeChange, Sub(newSedimentThickness, oldThickness)),
            !.zb = Add(c.bedrockLevel, limited)]

\* The bed update of one cell.
ApplyBedChange(c, rawChange) ==
    LET oldThickness == c.sedimentThickness
        newSedimentThickness == Max(0, Add(oldThickness, rawChange))
        limited == Min(RegionCap(c.x), newSedimentThickness)
    IN  [c EXCEPT
            !.sedimentThickness = limited,
            !.cumulativeChange =
                Add(c.cumulativeChange, Sub(newSedimentThickness, oldThickness)),
            !.zb = Add(c.bedrockLevel, limited)]

\* A bed update with a buffer of one cell from each boundary.
BedPassOneCellBuffer(g, p) ==
    [i \in Cells |->
        IF i >= 1 /\ i <= gridSize - 2
        THEN ApplyBedChange(g[i], BedChange(g, i, p))
        ELSE g[i]]

\* Morphodynamic update of the cells 2 .. gridSize - 3.
BedPass(g, p) ==
    [i \in Cells |->
        IF i >= 2 /\ i <= gridSize - 3
        THEN ApplyBedChange(g[i], BedChange(g, i, p))
        ELSE g[i]]

\* A step that left the boundary cells as they were.
BoundaryKept(g) == g

\* Fixed boundary conditions to prevent edge effects.
BoundaryCopy(g) ==
    [g EXCEPT
        ![0].sedimentThickness = g[1].sedimentThickness,
        ![0].zb = g[1].zb,
        ![gridSize - 1].sedimentThickness = g[gridSize - 2].sedimentThickness,
        ![gridSize - 1].zb = g[gridSize - 2].zb]

\* A step whose velocity and transport pass ran before its depth pass.
updateSimulationVelocityFirst(currentGrid, currentTime, p) ==
    {Table(BoundaryCopy(Table(BedPass(
         Table(DepthPass(Table(moved), currentTime, p)), p)))) :
         moved \in TransportPass(currentGrid, currentTime, p)}

\* Update simulation step: the grids that one step can leave.
updateSimulation(currentGrid, currentTime, p) ==
    LET wet == Table(DepthPass(currentGrid, currentTime, p))
    IN  {Table(BoundaryCopy(Table(BedPass(Table(moved), p)))) :
             moved \in TransportPass(wet, currentTime, p)}

\* ------------------------------------------------------------ statistics

\* The body of the loop of calculateSimulationStats for one cell. Lengths in
\* um; activeTransportPoints counts |qs| > 0.00001.
StatsStep(acc, c) ==
    LET change == c.cumulativeChange
    IN  [totalDeposition |->
             IF Gt(change, 0) THEN Add(acc.totalDeposition, change)
             ELSE acc.totalDeposition,
         totalErosion |->
             IF Lt(change, 0) THEN Add(acc.totalErosion, Abs(change))
             ELSE acc.totalErosion,
         maxChange |-> Max(acc.maxChange, Abs(change)),
         activeTransportPoints |->
             IF Gt(Abs(c.qs), 10000) THEN acc.activeTransportPoints + 1
             ELSE acc.activeTransportPoints]

\* The loop of calculateSimulationStats over the cells lo .. hi - 1 in
\* ascending order, entered with acc: the range is run in two halves, the
\* second entered with the result of the first once that is computed (its
\* count is never negative).
RECURSIVE StatsLoop(_, _, _, _)
StatsLoop(g, lo, hi, acc) ==
    IF hi <= lo THEN acc
    ELSE IF hi = lo + 1 THEN StatsStep(acc, g[lo])
    ELSE LET mid == (lo + hi) \div 2
             first == StatsLoop(g, lo, mid, acc)
         IN  IF first.activeTransportPoints >= 0
             THEN StatsLoop(g, mid, hi, first)
             ELSE first

\* calculateSimulationStats(grid), for a grid with the cells 0 .. n - 1.
calculateSimulationStats(g) ==
    StatsLoop(g, 0, Cardinality(DOMAIN g),
              [totalErosion |-> 0, totalDeposition |-> 0, maxChange |-> 0,
               activeTransportPoints |-> 0])

\* ------------------------------------------------------------ the driver

\* Bounds of the model: the handlers run in one run (clicks, slider moves,
\* frame callbacks, renders, timers), the High Transport timers pending at
\* once, and the updaters of frame callbacks waiting for React's render.
MaxEvents == 4

MaxPending == 1

MaxQueued == 1

\* The slider moves of a run: every slider, to one value of its range.
SliderMoves ==
    { <<"tidalRange", 40>>, <<"tidalPeriod", 16>>, <<"beachSlope", 80>>,
      <<"grainSize", 2>>, <<"waveHeight", 5>>, <<"wavePeriod", 12>>,
      <<"simulationSpeed", 19>>, <<"sedimentSupply", 15>> }

VARIABLES
    params,     \* the React state params
    isRunning,  \* the React state isRunning
    timeRef,    \* timeRef.current, in 1e-2 s
    heap,       \* the GridPoint objects: heap[r][i] is cell i of the array of
                \* cells r that an initializer allocated (arrays that nothing
                \* refers to any more are dropped)
    grid,       \* the React state grid: the array of cells it holds
    tasks,      \* the tasks set and not yet run, in the order in which they
                \* are due: a timer of delay 0 that will hand the array of
                \* cells ref to onGridUpdate (kind "handOff"), the 100 ms
                \* timer of the High Transport preset (kind "preset"), the
                \* render in which React will run the queued updaters (kind
                \* "render"), the effects that React will run after the
                \* render of a slider move (kind "effect": those of lines
                \* 133-178 and 320-334, kind "loop": that of lines 320-334)
    queued,     \* the updaters that frame callbacks gave to setGrid and that
                \* React has not run yet: the array of cells each will be
                \* given and the params of the updateSimulation it closes over
    handed,     \* the last two grids given to onGridUpdate: which cells, the
                \* values they had then, and the time given with them
    animationRef, \* the animation frame requested and not yet run
                \* (animationRef.current): << >> when there is none, <<p>> for
                \* the params p of the render whose animate it will call
    last,       \* the handler that ran last
    events      \* handlers run so far

vars ==
    <<params, isRunning, timeRef, heap, grid, tasks, queued, handed,
      animationRef, last, events>>

\* The cells of the current grid.
Grid == heap[grid]

\* onGridUpdate(g, time): the consumer receives the array of cells r; the
\* model remembers the last two.
HandTo(snapshots, r, cells, time) ==
    LET all == Append(snapshots, [ref |-> r, cells |-> cells, time |-> time])
    IN  IF Len(all) > 2 THEN Tail(all) ELSE all

Refs(snapshots) == {snapshots[k].ref : k \in 1 .. Len(snapshots)}

\* The arrays of cells that the closures of the pending timers hold.
TimerRefs(ts) ==
    {ts[k].ref : k \in {j \in 1 .. Len(ts) : ts[j].kind = "handOff"}}

\* The arrays of cells that are referred to: by the React state, by the
\* consumer, by a pending timer, by React's queue of updates.
Live(g, snapshots, ts, us) ==
    {g} \cup Refs(snapshots) \cup TimerRefs(ts) \cup Refs(us)

\* An array of cells that is not referred to.
NewRef(used) ==
    CHOOSE r \in 1 .. Cardinality(used) + 1 :
        r \notin used /\ \A q \in 1 .. r - 1 : q \in used

\* setTimeout(() => onGridUpdateRef.current?.(initialGrid, timeRef.current), 0)
HandOffTimerOf(r) == [kind |-> "handOff", ref |-> r]

\* setTimeout(..., 100) of the High Transport preset.
PresetTimerOf == [kind |-> "preset", ref |-> 0]

\* The render that React schedules for the updates of a frame callback.
RenderTask == [kind |-> "render", ref |-> 0]

\* The pending tasks but the k-th.
Remove(ts, k) == SubSeq(ts, 1, k - 1) \o SubSeq(ts, k + 1, Len(ts))

\* The effects that React will run after a render in which beachSlope or
\* sedimentSupply had changed: the effect on [params.beachSlope,
\* params.sedimentSupply] and, animate being a new function, the effect on
\* [isRunning, animate].
EffectTask == [kind |-> "effect", ref |-> 0]

\* The effect on [isRunning, animate] that React will run after a render in
\* which another parameter had changed (updateSimulation, and so animate, is
\* a new function).
LoopTask == [kind |-> "loop", ref |-> 0]

EffectPending(ts) == \E k \in 1 .. Len(ts) : ts[k].kind = "effect"

LoopPending(ts) == \E k \in 1 .. Len(ts) : ts[k].kind = "loop"

\* What the initializers and the effects write: the React state grid, the
\* arrays of cells, the pending tasks and the requested frame.
Current ==
    [grid |-> grid, heap |-> heap, tasks |-> tasks, frame |-> animationRef]

\* setGrid(initialGrid) of an initializer from the state st, which also sets
\* the timer of delay 0 that will hand the new grid to onGridUpdate. The
\* timer is due after the tasks of st and before those in later. Updaters
\* queued before keep the array of cells they were queued for.
Installed(st, cells, later) ==
    LET r == NewRef(DOMAIN st.heap)
    IN  [st EXCEPT
            !.grid = r,
            !.heap = [q \in DOMAIN st.heap \cup {r} |->
                         IF q = r THEN cells ELSE st.heap[q]],
            !.tasks = st.tasks \o <<HandOffTimerOf(r)>> \o later]

\* The effect of lines 320-334 after a render with isRunning = running and
\* the parameters p: the frame requested before is cancelled, and while
\* running a frame is requested for the animate of that render.
Requested(st, running, p) ==
    [st EXCEPT !.frame = IF running THEN <<p>> ELSE << >>]

\* The effects pending in st run, those of a render with isRunning = running
\* and the parameters p: the effect of lines 133-178, when it is among them,
\* builds the grid for the beachSlope and the sedimentSupply of p and
\* installs it; the effect of lines 320-334 requests the frame anew.
RunEffect(st, running, p) ==
    IF EffectPending(st.tasks) \/ LoopPending(st.tasks)
    THEN LET k == CHOOSE j \in 1 .. Len(st.tasks) :
                      st.tasks[j].kind \in {"effect", "loop"}
             rest == Requested([st EXCEPT !.tasks = Remove(st.tasks, k)],
                               running, p)
         IN  IF st.tasks[k].kind = "effect"
             THEN Installed(rest, EffectGrid(p), << >>)
             ELSE rest
    ELSE st

\* The state st is written; the arrays of cells that nothing refers to any
\* more are dropped.
Commit(st, snapshots, us) ==
    /\ grid' = st.grid
    /\ tasks' = st.tasks
    /\ animationRef' = st.frame
    /\ heap' = [q \in Live(st.grid, snapshots, st.tasks, us) |-> st.heap[q]]

\* After the first render and its effects: the useState initializer made the
\* first grid, the effect on the shape parameters replaced it and set the
\* timer of delay 0 that will hand its grid to onGridUpdate.
Init ==
    /\ params = DefaultParams
    /\ isRunning = FALSE
    /\ timeRef = 0
    /\ grid = 1
    /\ heap = [r \in {1} |-> EffectGrid(DefaultParams)]
    /\ handed = << >>
    /\ tasks = <<HandOffTimerOf(1)>>
    /\ queued = << >>
    /\ animationRef = << >>
    /\ last = "mount"
    /\ events = 0

\* A handler that sets state makes React render, and React runs the pending
\* effects before it renders: the handlers below that set state are followed
\* by the pending effects, with isRunning and the parameters of the render
\* that scheduled them. The render of a click is synchronous and its own
\* effects run with it; the render of a slider that is dragged leaves its
\* effects pending (ShapeEffect, LoopEffect), and frames and timers can run
\* before them.

\* The Start / Pause button: the effect of lines 320-334 requests a frame for
\* the animate of this render, or cancels the requested one.
ToggleRunning ==
    /\ events < MaxEvents
    /\ isRunning' = ~isRunning
    /\ Commit(Requested(RunEffect(Current, isRunning, params),
                        ~isRunning, params),
              handed, queued)
    /\ last' = "toggle"
    /\ events' = events + 1
    /\ UNCHANGED <<params, timeRef, queued, handed>>

\* The updaters us run in their order, as React runs them in one render, at
\* the time timeRef.current has then: each steps the cells of its array with
\* the updateSimulation it closes over and hands them to onGridUpdate. The
\* outcomes: the heap h and the snapshots after the last of them.
RECURSIVE RunUpdaters(_, _, _, _)
RunUpdaters(us, h, snapshots, time) ==
    IF us = << >> THEN {[heap |-> h, handed |-> snapshots]}
    ELSE UNION {RunUpdaters(Tail(us),
                            [h EXCEPT ![Head(us).ref] = newGrid],
                            HandTo(snapshots, Head(us).ref, newGrid, time),
                            time) :
                    newGrid \in updateSimulation(h[Head(us).ref], time,
                                                 Head(us).params)}

\* The callback of the requested animation frame: the animate of the render
\* that requested it, with the parameters of that render. It advances the
\* time and gives setGrid the updater, which React runs in a render of its
\* own (Render); it requests itself for the next frame.
Animate ==
    /\ animationRef # << >>
    /\ events < MaxEvents
    /\ Len(queued) < MaxQueued
    /\ timeRef' = timeRef + (dt * animationRef[1].simulationSpeed) \div 10
    /\ queued' = Append(queued, [ref |-> grid, params |-> animationRef[1]])
    /\ tasks' = IF \E k \in 1 .. Len(tasks) : tasks[k].kind = "render"
                THEN tasks ELSE Append(tasks, RenderTask)
    /\ last' = "animate"
    /\ events' = events + 1
    /\ UNCHANGED <<params, isRunning, heap, grid, handed, animationRef>>

\* React's render of the updates of the frame callbacks: it runs the queued
\* updaters. updateSimulation writes to the cells of the array it is given;
\* the new array holds the same cells. A pending effect runs first; its
\* setGrid comes after the updaters in React's queue.
Render ==
    /\ events < MaxEvents
    /\ \E k \in 1 .. Len(tasks) :
          /\ tasks[k].kind = "render"
          /\ LET st == RunEffect([Current EXCEPT !.tasks = Remove(tasks, k)],
                                 isRunning, params)
             IN  \E out \in RunUpdaters(queued, st.heap, handed, timeRef) :
                     /\ handed' = out.handed
                     /\ Commit([st EXCEPT !.heap = out.heap], handed', << >>)
    /\ queued' = << >>
    /\ last' = "render"
    /\ events' = events + 1
    /\ UNCHANGED <<params, isRunning, timeRef>>

\* A timer of delay 0 fires, the one of them that was set first, once the
\* renders and effects scheduled before it was set have run: the array of
\* cells that its initializer built goes to onGridUpdate, with the values
\* its cells have now and the time of now.
HandOffTimer ==
    /\ events < MaxEvents
    /\ \E k \in 1 .. Len(tasks) :
          /\ tasks[k].kind = "handOff"
          /\ \A j \in 1 .. k - 1 : tasks[j].kind = "preset"
          /\ handed' = HandTo(handed, tasks[k].ref, heap[tasks[k].ref], timeRef)
          /\ tasks' = Remove(tasks, k)
          /\ heap' = [q \in Live(grid, handed', tasks', queued) |-> heap[q]]
    /\ last' = "handOff"
    /\ events' = events + 1
    /\ UNCHANGED <<params, isRunning, timeRef, grid, queued, animationRef>>

\* A slider move that scheduled the grid's effect for every parameter.
MoveSliderReinitializing(name, value) ==
    /\ name \notin {"beachSlope", "sedimentSupply"}
    /\ value \in SliderRange[name]
    /\ value # params[name]
    /\ events < MaxEvents
    /\ params' = [params EXCEPT ![name] = value]
    /\ LET st == RunEffect(Current, isRunning, params)
       IN  Commit([st EXCEPT !.tasks = Append(st.tasks, EffectTask)],
                  handed, queued)
    /\ last' = "slider"
    /\ events' = events + 1
    /\ UNCHANGED <<isRunning, timeRef, queued, handed>>

\* A slider of tidalRange, tidalPeriod, grainSize, waveHeight, wavePeriod or
\* simulationSpeed is moved: setParams. React renders and schedules the
\* effect on [isRunning, animate], which runs later (LoopEffect); until then
\* the component has the new parameters and the requested frame will call
\* the animate of the render before.
MoveForcingSlider(name, value) ==
    /\ name \notin {"beachSlope", "sedimentSupply"}
    /\ value \in SliderRange[name]
    /\ value # params[name]
    /\ events < MaxEvents
    /\ params' = [params EXCEPT ![name] = value]
    /\ LET st == RunEffect(Current, isRunning, params)
       IN  Commit([st EXCEPT !.tasks = Append(st.tasks, LoopTask)],
                  handed, queued)
    /\ last' = "slider"
    /\ events' = events + 1
    /\ UNCHANGED <<isRunning, timeRef, queued, handed>>

\* The slider of beachSlope or sedimentSupply is moved: setParams. React
\* renders and schedules the effects on [params.beachSlope,
\* params.sedimentSupply] and on [isRunning, animate], which run later
\* (ShapeEffect); until then the component has the new parameters, the grid
\* of the old ones and the requested frame of the render before.
MoveShapeSlider(name, value) ==
    /\ name \in {"beachSlope", "sedimentSupply"}
    /\ value \in SliderRange[name]
    /\ value # params[name]
    /\ events < MaxEvents
    /\ params' = [params EXCEPT ![name] = value]
    /\ LET st == RunEffect(Current, isRunning, params)
       IN  Commit([st EXCEPT !.tasks = Append(st.tasks, EffectTask)],
                  handed, queued)
    /\ last' = "shape"
    /\ events' = events + 1
    /\ UNCHANGED <<isRunning, timeRef, queued, handed>>

\* The pending effects of a move of beachSlope or sedimentSupply run: that
\* of lines 133-178 builds the grid for the current beachSlope and
\* sedimentSupply, installs it and sets the timer of delay 0 for it; that of
\* lines 320-334 requests the frame anew. They write neither the time nor
\* isRunning.
ShapeEffect ==
    /\ events < MaxEvents
    /\ EffectPending(tasks)
    /\ Commit(RunEffect(Current, isRunning, params), handed, queued)
    /\ last' = "effect"
    /\ events' = events + 1
    /\ UNCHANGED <<params, isRunning, timeRef, queued, handed>>

\* The pending effect of a move of another slider runs, that of lines
\* 320-334: the requested frame is cancelled, and while running a frame is
\* requested for the animate of the current parameters.
LoopEffect ==
    /\ events < MaxEvents
    /\ LoopPending(tasks)
    /\ Commit(RunEffect(Current, isRunning, params), handed, queued)
    /\ last' = "loop"
    /\ events' = events + 1
    /\ UNCHANGED <<params, isRunning, timeRef, queued, handed>>

\* The Reset button: the handler builds and installs its grid, then React
\* renders.
resetSimulation ==
    /\ events < MaxEvents
    /\ isRunning' = FALSE
    /\ timeRef' = 0
    /\ Commit(Requested(RunEffect(Installed(Current, ResetGrid(params), << >>),
                                  isRunning, params),
                        FALSE, params),
              handed, queued)
    /\ last' = "reset"
    /\ events' = events + 1
    /\ UNCHANGED <<params, queued, handed>>

\* The High Transport button: its 100 ms timer is set, and when the preset
\* changes beachSlope or sedimentSupply the effect on them runs after the
\* render of the click; the timer of delay 0 of the effect is due before the
\* 100 ms timer.
setHighTransportPreset ==
    /\ events < MaxEvents
    /\ Cardinality({k \in 1 .. Len(tasks) : tasks[k].kind = "preset"})
           < MaxPending
    /\ isRunning' = FALSE
    /\ timeRef' = 0
    /\ params' = PresetParams
    /\ LET st == Requested(RunEffect(Current, isRunning, params),
                           FALSE, PresetParams)
       IN  IF params.beachSlope # PresetParams.beachSlope
              \/ params.sedimentSupply # PresetParams.sedimentSupply
           THEN Commit(Installed(st, EffectGrid(PresetParams), <<PresetTimerOf>>),
                       handed, queued)
           ELSE Commit([st EXCEPT !.tasks = Append(st.tasks, PresetTimerOf)],
                       handed, queued)
    /\ last' = "preset"
    /\ events' = events + 1
    /\ UNCHANGED <<queued, handed>>

\* The 100 ms timer of the High Transport preset fires, when no task is due
\* before it: it installs its grid and sets the timer of delay 0 for it.
PresetTimer ==
    /\ events < MaxEvents
    /\ Len(tasks) > 0
    /\ tasks[1].kind = "preset"
    /\ Commit(Installed([Current EXCEPT !.tasks = Tail(tasks)], PresetGrid, << >>),
              handed, queued)
    /\ last' = "presetTimer"
    /\ events' = events + 1
    /\ UNCHANGED <<params, isRunning, timeRef, queued, handed>>

Next ==
    \/ ToggleRunning
    \/ Animate
    \/ Render
    \/ HandOffTimer
    \/ \E m \in SliderMoves : MoveForcingSlider(m[1], m[2])
    \/ \E m \in SliderMoves : MoveShapeSlider(m[1], m[2])
    \/ ShapeEffect
    \/ LoopEffect
    \/ resetSimulation
    \/ setHighTransportPreset
    \/ PresetTimer

Spec == Init /\ [][Next]_vars

\* The component once the timer of the first render has fired: the consumer
\* holds the first grid.
SettledInit ==
    /\ params = DefaultParams
    /\ isRunning = FALSE
    /\ timeRef = 0
    /\ grid = 1
    /\ heap = [r \in {1} |-> EffectGrid(DefaultParams)]
    /\ handed = <<[ref |-> 1, cells |-> EffectGrid(DefaultParams), time |-> 0]>>
    /\ tasks = << >>
    /\ queued = << >>
    /\ animationRef = << >>
    /\ last = "handOff"
    /\ events = 0

SettledSpec == SettledInit /\ [][Next]_vars

\* ------------------------------------------------------------ the engine alone

\* updateSimulation called as a function: params holds the parameters of
\* the calls, the grid is one that the component installs for them, and
\* every call is given the grid of the call before and a time
\* dt * simulationSpeed later.

\* The calls of one run.
MaxCalls == 10

\* Parameters of the component: those of the first render, those after one
\* of the slider moves, after the moves of waveHeight and simulationSpeed,
\* after the moves of grainSize, simulationSpeed and sedimentSupply to the
\* ends of their sliders (coarse sand at full speed on a thin bed), and
\* those of the High Transport preset.
CallParams ==
    {DefaultParams, PresetParams,
     [DefaultParams EXCEPT !.waveHeight = 5, !.simulationSpeed = 19],
     [DefaultParams EXCEPT !.grainSize = 20, !.simulationSpeed = 30,
                           !.sedimentSupply = 1]}
    \cup {[DefaultParams EXCEPT ![m[1]] = m[2]] : m \in SliderMoves}

\* The grids that the component installs for the parameters p.
CallGrids(p) ==
    {InitialGrid(p), EffectGrid(p), ResetGrid(p)}
    \cup (IF p = PresetParams THEN {PresetGrid} ELSE {})

CallInit ==
    /\ params \in CallParams
    /\ isRunning = TRUE
    /\ timeRef = 0
    /\ grid = 1
    /\ \E cells \in CallGrids(params) : heap = [r \in {1} |-> cells]
    /\ handed = << >>
    /\ tasks = << >>
    /\ queued = << >>
    /\ animationRef = << >>
    /\ last = "created"
    /\ events = 0

\* updateSimulation(grid, time) on the grid of the call before.
CallStep ==
    /\ events < MaxCalls
    /\ timeRef' = timeRef + (dt * params.simulationSpeed) \div 10
    /\ \E newGrid \in updateSimulation(Grid, timeRef', params) :
          heap' = [r \in {grid} |-> newGrid]
    /\ last' = "call"
    /\ events' = events + 1
    /\ UNCHANGED <<params, isRunning, grid, tasks, queued, handed,
                   animationRef>>

CallNext == CallStep

CallSpec == CallInit /\ [][CallNext]_vars

\* ------------------------------------------------------------ a long run

\* The High Transport scenario: the High Transport button was clicked after
\* the first render, its timers have fired, Start was clicked, and the
\* driver runs frame after frame, each frame rendered before the next.

\* Frames of the scenario.
MaxScenarioSteps == 1000

ScenarioInit ==
    /\ params = PresetParams
    /\ isRunning = TRUE
    /\ timeRef = 0
    /\ grid = 3
    /\ heap = [r \in {2, 3} |->
                  IF r = 2 THEN EffectGrid(PresetParams) ELSE PresetGrid]
    /\ handed = <<[ref |-> 2, cells |-> EffectGrid(PresetParams), time |-> 0],
                  [ref |-> 3, cells |-> PresetGrid, time |-> 0]>>
    /\ tasks = << >>
    /\ queued = << >>
    /\ animationRef = <<params>>
    /\ last = "toggle"
    /\ events = 0

\* The callback of a frame of a run of at most frames frames: animate.
FrameOf(frames) ==
    /\ animationRef # << >>
    /\ events < 2 * frames
    /\ queued = << >>
    /\ timeRef' = timeRef + (dt * animationRef[1].simulationSpeed) \div 10
    /\ queued' = Append(queued, [ref |-> grid, params |-> animationRef[1]])
    /\ tasks' = Append(tasks, RenderTask)
    /\ last' = "animate"
    /\ events' = events + 1
    /\ UNCHANGED <<params, isRunning, heap, grid, handed, animationRef>>

\* React's render of the frame.
RenderOf(frames) ==
    /\ events < 2 * frames
    /\ \E k \in 1 .. Len(tasks) :
          /\ tasks[k].kind = "render"
          /\ tasks' = Remove(tasks, k)
    /\ \E out \in RunUpdaters(queued, heap, handed, timeRef) :
          /\ handed' = out.handed
          /\ heap' = [q \in Live(grid, handed', tasks', << >>) |-> out.heap[q]]
    /\ queued' = << >>
    /\ last' = "render"
    /\ events' = events + 1
    /\ UNCHANGED <<params, isRunning, timeRef, grid, animationRef>>

ScenarioFrame == FrameOf(MaxScenarioSteps)

ScenarioRender == RenderOf(MaxScenarioSteps)

ScenarioNext ==
    \/ ScenarioFrame
    \/ ScenarioRender

ScenarioSpec == ScenarioInit /\ [][ScenarioNext]_vars

\* ------------------------------------------------------------ a run to the cap

\* Coarse sand at full speed: after the first render and its timer, the
\* sliders of grainSize and simulationSpeed were moved to 2.0 and 3.0, Start
\* was clicked, and the driver runs frame after frame, each frame rendered
\* before the next. Sediment piles up at x = 285 until the cap of line 287
\* cuts it.

\* Frames of the run.
MaxCapSteps == 510

CapInit ==
    /\ params = [DefaultParams EXCEPT !.grainSize = 20, !.simulationSpeed = 30]
    /\ isRunning = TRUE
    /\ timeRef = 0
    /\ grid = 1
    /\ heap = [r \in {1} |-> EffectGrid(DefaultParams)]
    /\ handed = <<[ref |-> 1, cells |-> EffectGrid(DefaultParams), time |-> 0]>>
    /\ tasks = << >>
    /\ queued = << >>
    /\ animationRef = <<params>>
    /\ last = "toggle"
    /\ events = 0

CapFrame == FrameOf(MaxCapSteps)

CapRender == RenderOf(MaxCapSteps)

CapNext ==
    \/ CapFrame
    \/ CapRender

CapSpec == CapInit /\ [][CapNext]_vars

\* ------------------------------------------------------------ properties


\* C1. Non-negativity: after every step, every cell has water depth h >= 0
\* and sedimentThickness >= 0.
NonNegativity ==
    last = "call" =>
        \A i \in Cells : Ge(Grid[i].h, 0) /\ Ge(Grid[i].sedimentThickness, 0)

\* C2. Boundedness of flow and transport: after every step, every cell has
\* |u| <= 2.0 and |qs| <= 0.02.
Boundedness ==
    last = "call" =>
        \A i \in Cells :
            Le(Abs(Grid[i].u), 2000000) /\ Le(Abs(Grid[i].qs), 20000000)

\* C3. Consistency: after every step, zb equals bedrockLevel +
\* sedimentThickness in every cell, the two boundary cells included.
Consistency ==
    last = "call" =>
        \A i \in Cells :
            /\ ~IsNaN(Grid[i].zb)
            /\ Grid[i].zb = Add(Grid[i].bedrockLevel, Grid[i].sedimentThickness)

\* C4. Boundary mirroring: after every step, the boundary cells have the
\* sedimentThickness and the zb of their neighbours, and u = 0.
BoundaryMirroring ==
    last = "call" =>
        /\ ~IsNaN(Grid[1].sedimentThickness) /\ ~IsNaN(Grid[1].zb)
        /\ ~IsNaN(Grid[gridSize - 2].sedimentThickness)
        /\ ~IsNaN(Grid[gridSize - 2].zb)
        /\ Grid[0].sedimentThickness = Grid[1].sedimentThickness
        /\ Grid[0].zb = Grid[1].zb
        /\ Grid[gridSize - 1].sedimentThickness = Grid[gridSize - 2].sedimentThickness
        /\ Grid[gridSize - 1].zb = Grid[gridSize - 2].zb
        /\ Grid[0].u = 0
        /\ Grid[gridSize - 1].u = 0

\* A step has copied a zb to a boundary cell whose bedrock level differs from
\* its neighbour's.
BoundaryMirroringWitness ==
    /\ last = "call"
    /\ Grid[0].bedrockLevel # Grid[1].bedrockLevel
    /\ Grid[0].zb = Grid[1].zb
    /\ Grid[0].zb # Grid[0].bedrockLevel + Grid[0].sedimentThickness

\* C5. Sediment cap: after every step, sedimentThickness is at most 8.0 where
\* x < 300 and at most 12.0 elsewhere.
SedimentCap ==
    last = "call" =>
        \A i \in Cells :
            Le(Grid[i].sedimentThickness,
               IF Grid[i].x < 300 THEN 8000000 ELSE 12000000)

\* C6. The engine always produces a valid next state: after every step, h, u,
\* qs, sedimentThickness, zb and cumulativeChange of every cell are numbers
\* (never NaN).
ValidNextState ==
    last = "call" =>
        \A i \in Cells :
            /\ ~IsNaN(Grid[i].h)
            /\ ~IsNaN(Grid[i].u)
            /\ ~IsNaN(Grid[i].qs)
            /\ ~IsNaN(Grid[i].sedimentThickness)
            /\ ~IsNaN(Grid[i].zb)
            /\ ~IsNaN(Grid[i].cumulativeChange)

\* C7. A step never changes x, bedrockLevel or initialSedimentThickness of a
\* cell, nor the number of cells.
StepKeepsShape ==
    [][last' = "call" =>
          /\ grid' = grid
          /\ DOMAIN heap'[grid'] = DOMAIN heap[grid]
          /\ \A i \in DOMAIN heap[grid] :
                /\ heap'[grid'][i].x = heap[grid][i].x
                /\ heap'[grid'][i].bedrockLevel = heap[grid][i].bedrockLevel
                /\ heap'[grid'][i].initialSedimentThickness =
                       heap[grid][i].initialSedimentThickness]_vars

\* A step has moved sediment: a cell's thickness is no longer the initial one.
StepKeepsShapeWitness ==
    /\ last = "call"
    /\ \E i \in Cells :
          Grid[i].sedimentThickness # Grid[i].initialSedimentThickness

\* C8. Snapshot immutability: a grid handed to onGridUpdate has, after any
\* later step, the cell values it had when it was handed off.
SnapshotImmutability ==
    \A k \in 1 .. Len(handed) : heap[handed[k].ref] = handed[k].cells

\* C10. Reset from any state: after resetSimulation the time is 0 and the grid
\* is the grid of creation for the current beachSlope and sedimentSupply, with
\* u = 0, qs = 0, cumulativeChange = 0 and sedimentThickness =
\* initialSedimentThickness in every cell.
ResetFromAnyState ==
    last = "reset" =>
        /\ timeRef = 0
        /\ Grid = InitialGrid(params)
        /\ \A i \in Cells :
              /\ Grid[i].u = 0
              /\ Grid[i].qs = 0
              /\ Grid[i].cumulativeChange = 0
              /\ Grid[i].sedimentThickness = Grid[i].initialSedimentThickness

\* A reset after a step was taken: the consumer holds the stepped grid.
ResetFromAnyStateWitness ==
    /\ last = "reset"
    /\ Len(handed) = 1
    /\ handed[1].time > 0
    /\ handed[1].cells # Grid
    /\ heap[handed[1].ref] = handed[1].cells

\* C11. Reset idempotence: a reset right after the grid was created for the
\* current shape parameters (by the first render, the effect of a shape
\* slider or a reset)
\* gives a grid equal to that one in every field of every cell, with
\* cumulativeChange = 0 everywhere; so a second reset gives the grid of the
\* first.
ResetIdempotence ==
    [][(last' = "reset" /\ last \in {"mount", "effect", "reset"}) =>
          /\ heap'[grid'] = heap[grid]
          /\ \A i \in Cells : heap'[grid'][i].cumulativeChange = 0]_vars

\* Two resets in a row, with a sedimentSupply other than that of the first
\* render: the timers of the shape slider and of the two resets hold three
\* grids, equal in their values.
ResetIdempotenceWitness ==
    /\ last = "reset"
    /\ params.sedimentSupply # DefaultParams.sedimentSupply
    /\ Len(tasks) = 4
    /\ \A k \in 2 .. 4 : tasks[k].kind = "handOff"
    /\ Cardinality({tasks[k].ref : k \in 2 .. 4}) = 3
    /\ \A k \in 2 .. 4 : heap[tasks[k].ref] = Grid

\* C12. Reinitialization on a shape change behaves like reset: when
\* beachSlope or sedimentSupply changes, the grid is replaced by the freshly
\* created grid for the new values and the simulation time is set to 0.
ReinitializeLikeReset ==
    last = "effect" => (Grid = InitialGrid(params) /\ timeRef = 0)

\* C13. The grid is determined by the shape parameters: every grid installed
\* for a beachSlope and a sedimentSupply (by the first render, a reset, a
\* shape slider or the High Transport preset, whose timer installs its grid
\* for the beachSlope and the sedimentSupply of the preset) has the
\* bedrockLevel and the sedimentThickness of the grid created for them.
ShapeDeterminesGrid ==
    (\/ last \in {"mount", "effect", "reset"}
     \/ /\ last = "presetTimer"
        /\ params.beachSlope = PresetParams.beachSlope
        /\ params.sedimentSupply = PresetParams.sedimentSupply) =>
        \A i \in Cells :
            /\ Grid[i].bedrockLevel = InitialGrid(params)[i].bedrockLevel
            /\ Grid[i].sedimentThickness =
                   InitialGrid(params)[i].sedimentThickness

TimeAdvance ==
    [][/\ last' = "animate" =>
             /\ 10 * (timeRef' - timeRef) = dt * params.simulationSpeed
             /\ params' = params
       /\ last' \in {"reset", "preset"} => timeRef' = 0
       /\ last' \notin {"animate", "reset", "preset"} => timeRef' = timeRef]_vars

\* C16. The driver is Running or Paused, and steps happen only in Running:
\* Pause, Reset and the preset make it Paused, only Start makes it Running,
\* and while it is Paused no frame executes a step: the cells of the grid are
\* not stepped and the simulation time does not advance.
StepsOnlyWhileRunning ==
    [][/\ isRunning \in BOOLEAN /\ isRunning' \in BOOLEAN
       /\ last' \in {"animate", "render"} => isRunning
       /\ last' \in {"reset", "preset"} => ~isRunning'
       /\ (~isRunning /\ isRunning') => last' = "toggle"
       /\ (last' = "toggle" /\ isRunning) => ~isRunning'
       /\ ~isRunning =>
             /\ last' \notin {"animate", "render"}
             /\ timeRef' \in {timeRef, 0}
             /\ grid' = grid => heap'[grid'] = heap[grid]]_vars

\* C17. cumulativeChange is the running sum of the sedimentThickness deltas
\* since the grid was created: every cell whose cumulativeChange and
\* sedimentThickness are numbers has cumulativeChange = sedimentThickness -
\* initialSedimentThickness, also after steps in which the floor at 0 or the
\* region cap applied.
CumulativeChangeIsNetChange ==
    \A i \in DOMAIN Grid :
        (/\ ~IsNaN(Grid[i].cumulativeChange)
         /\ ~IsNaN(Grid[i].sedimentThickness)) =>
            Grid[i].cumulativeChange =
                Sub(Grid[i].sedimentThickness, Grid[i].initialSedimentThickness)

\* C19. Availability throttling: a cell whose sedimentThickness is at most
\* 0.001 (0 in particular) at the start of a step gets qs = 0 in that step,
\* whatever its velocity and its depth.
AvailabilityThrottling ==
    [][last' = "call" =>
          \A i \in Cells :
              Le(heap[grid][i].sedimentThickness, 1000) =>
                  heap'[grid'][i].qs = 0]_vars

\* A step has given the rate 0 to a cell under deep moving water, whose shear
\* stress is beyond the critical one: the cell was eroded to a thickness of
\* at most 0.001 by the steps before (coarse sand at full speed on a thin
\* bed thins x = 300 to 0.00024 in six steps and to 0 in the seventh).
AvailabilityThrottlingWitness ==
    /\ last = "call"
    /\ \E i \in 2 .. gridSize - 3 :
          /\ Grid[i].qs = 0
          /\ Gt(Grid[i].h, 1000000)
          /\ Grid[i].u # 0
          /\ Gt(Abs(ShearStress(Grid[i].u, Grid[i].h)),
                2 * CriticalShear(params))
          /\ Le(Grid[i].sedimentThickness, 1000)
          /\ Lt(Grid[i].cumulativeChange, 0)

\* The sum of sign * cumulativeChange over the cells of S where it is
\* positive.
RECURSIVE NetSum(_, _, _)
NetSum(g, S, sign) ==
    IF S = {} THEN 0
    ELSE IF Cardinality(S) = 1
    THEN LET change == g[CHOOSE i \in S : TRUE].cumulativeChange
         IN  IF ~IsNaN(change) /\ sign * change > 0 THEN sign * change ELSE 0
    ELSE LET low == {i \in S : 2 * Cardinality({j \in S : j < i}) < Cardinality(S)}
         IN  NetSum(g, low, sign) + NetSum(g, S \ low, sign)

\* C20. calculateSimulationStats returns, for every grid: totalErosion = the
\* sum of |cumulativeChange| over the cells where it is negative,
\* totalDeposition = the sum of cumulativeChange over the cells where it is
\* positive, maxChange = the maximum of |cumulativeChange| over all cells (0
\* for the empty grid), activeTransportPoints = the number of cells with
\* |qs| > 0.00001.
StatsAreSums ==
    LET stats == calculateSimulationStats(Grid)
    IN  /\ stats.totalErosion = NetSum(Grid, Cells, -1)
        /\ stats.totalDeposition = NetSum(Grid, Cells, 1)
        /\ \A i \in Cells : Le(Abs(Grid[i].cumulativeChange), stats.maxChange)
        /\ \/ stats.maxChange = 0
           \/ \E i \in Cells : Abs(Grid[i].cumulativeChange) = stats.maxChange
        /\ stats.activeTransportPoints =
               Cardinality({i \in Cells : Gt(Abs(Grid[i].qs), 10000)})
        /\ calculateSimulationStats(<< >>).maxChange = 0

\* C21. High-transport scenario: with the parameters of the High Transport
\* preset, after 1000 steps at least one cell with x in [300, 700) has
\* |cumulativeChange| > 0.01; one has it after the 200th step already and
\* after every later step.
HighTransportScenario ==
    (last = "render" /\ events >= 400 /\ params = PresetParams) =>
        \E i \in Cells :
            /\ Grid[i].x >= 300
            /\ Grid[i].x < 700
            /\ Gt(Abs(Grid[i].cumulativeChange), 10000)

\* The 1000th step of the scenario has been taken, at time 200 s.
HighTransportScenarioWitness ==
    /\ last = "render"
    /\ events = 2000
    /\ params = PresetParams
    /\ timeRef = 20000
    /\ \A i \in Cells : ~IsNaN(Grid[i].cumulativeChange)

\* C22. Pass ordering inside one step: the new velocity of every cell is
\* computed from the depths of this step in the cell and in both neighbours
\* and from the velocity of the step before, and the bed update of every
\* cell from the transport rates of this step in both neighbours.
PassOrdering ==
    [][last' = "call" =>
          LET before == heap[grid]
              after == heap'[grid']
              depthsNow == Table([i \in Cells |->
                               [after[i] EXCEPT !.u = before[i].u]])
          IN  /\ \A i \in 1 .. gridSize - 2 :
                    after[i].u \in NewVelocity(depthsNow, i, timeRef', params)
              /\ \A i \in 2 .. gridSize - 3 :
                    after[i].sedimentThickness =
                        ApplyBedChange(before[i], BedChange(after, i, params))
                            .sedimentThickness]_vars

\* A second call in a row: water moves in a cell, sediment is transported
\* there and its thickness has changed.
PassOrderingWitness ==
    /\ last = "call"
    /\ events >= 2
    /\ \E i \in 2 .. gridSize - 3 :
          /\ Grid[i].u # 0
          /\ Grid[i].qs # 0
          /\ ~IsNaN(Grid[i].qs)
          /\ Grid[i].sedimentThickness # Grid[i].initialSedimentThickness

\* C23. A step taken at time t evaluates the tide and the waves at t, the
\* time before the advance: the depths after a frame are those of the depth
\* pass at the time the frame started with.
ForcingAtStepStart ==
    [][(/\ last' = "render"
        /\ Len(queued) = 1
        /\ 10 * timeRef >= dt * queued[1].params.simulationSpeed) =>
          LET started ==
                  timeRef - (dt * queued[1].params.simulationSpeed) \div 10
          IN  \A i \in Cells :
                  heap'[queued[1].ref][i].h =
                      DepthPass(heap[queued[1].ref], started,
                                queued[1].params)[i].h]_vars

\* C24. While running, every rendered frame takes several physics steps:
\* a step advances the time by dt * simulationSpeed, so a frame advances it
\* by at least twice as much.
SeveralStepsPerFrame ==
    [][last' = "animate" =>
          timeRef' - timeRef >= 2 * ((dt * params.simulationSpeed) \div 10)]_vars

\* C25. After every step a cell whose depth of that step is at most 0.05
\* stands still, and every wetter interior cell has the forward-Euler
\* velocity computed from its velocity of the step before, which lies in
\* [-2, 2].
ShallowCellsStandStill ==
    [][last' = "call" =>
          LET before == heap[grid]
              after == heap'[grid']
              depthsNow == Table([i \in Cells |->
                               [after[i] EXCEPT !.u = before[i].u]])
          IN  \A i \in Cells :
                  /\ Le(after[i].h, 50000) => after[i].u = 0
                  /\ (i \in 1 .. gridSize - 2 /\ Gt(after[i].h, 50000)) =>
                        /\ after[i].u \in NewVelocity(depthsNow, i, timeRef', params)
                        /\ Ge(after[i].u, -2000000)
                        /\ Le(after[i].u, 2000000)]_vars

\* C26. Transport activation: a step gives a cell a transport rate other
\* than 0 only if, with the depth and velocity of that step and the
\* sediment thickness from before its bed update, |tau| > tau_crit, h > 0.01
\* and the thickness exceeds 0.001; the rate then has the sign of the
\* velocity; the rate is 0 in both boundary cells and wherever u = 0.
TransportActivation ==
    [][last' = "call" =>
          LET before == heap[grid]
              after == heap'[grid']
          IN  \A i \in Cells :
                  /\ after[i].qs # 0 =>
                        /\ Gt(Abs(ShearStress(after[i].u, after[i].h)),
                              CriticalShear(params))
                        /\ Gt(after[i].h, 10000)
                        /\ Gt(before[i].sedimentThickness, 1000)
                        /\ Sign(after[i].qs) = Sign(after[i].u)
                  /\ (i \in {0, gridSize - 1} \/ after[i].u = 0) =>
                        after[i].qs = 0]_vars

\* C27. Two-cell buffer: in every grid, whether it comes from creation, a
\* reset or the preset and whatever steps it has seen, the two cells next to
\* each boundary have the sediment thickness of their creation and a
\* cumulative change of 0.
TwoCellBuffer ==
    \A i \in {0, 1, gridSize - 2, gridSize - 1} :
        /\ Grid[i].sedimentThickness = Grid[i].initialSedimentThickness
        /\ Grid[i].cumulativeChange = 0

\* Two calls in a row have moved sediment further inside, and the bed
\* change computed for cell 1 in the last of them was not 0.
TwoCellBufferWitness ==
    /\ last = "call"
    /\ events >= 2
    /\ BedChange(Grid, 1, params) # 0
    /\ \E i \in 2 .. gridSize - 3 : Grid[i].cumulativeChange # 0

\* C28. The bed change of one step is bounded: from a grid whose sediment
\* thickness is within the caps of the regions, a step changes neither the
\* sediment thickness nor the cumulative change of any cell by more than
\* 0.1 m.
BoundedBedChange ==
    [][(/\ last' = "call"
        /\ \A i \in Cells :
              Le(heap[grid][i].sedimentThickness, RegionCap(heap[grid][i].x))) =>
          LET before == heap[grid]
              after == heap'[grid']
          IN  \A i \in Cells :
                  /\ Le(Abs(Sub(after[i].sedimentThickness,
                                before[i].sedimentThickness)), 100000)
                  /\ Le(Abs(Sub(after[i].cumulativeChange,
                                before[i].cumulativeChange)), 100000)]_vars

\* C29. Whenever the transport of a cell is active in a step (|tau| >
\* tau_crit, h > 0.01 and a sediment thickness above 0.001 before the bed
\* update), tau_star - 1 is not negative, and the transport rate of the cell
\* is a number in [-0.02, 0.02].
ActiveTransportIsANumber ==
    [][last' = "call" =>
          LET before == heap[grid]
              after == heap'[grid']
              tau_crit == CriticalShear(params)
          IN  \A i \in Cells :
                  LET tau == ShearStress(after[i].u, after[i].h)
                  IN  (/\ Gt(Abs(tau), tau_crit)
                       /\ Gt(after[i].h, 10000)
                       /\ Gt(before[i].sedimentThickness, 1000)) =>
                          /\ DivU(Abs(tau), tau_crit + 1000) >= 1000000
                          /\ ~IsNaN(after[i].qs)
                          /\ Le(Abs(after[i].qs), 20000000)]_vars

\* C30. The timer of the preset never overwrites progress: when it has
\* installed its grid the driver is still paused, the time is still 0, and
\* beachSlope and sedimentSupply are still 0.08 and 1.5.
PresetTimerKeepsProgress ==
    last = "presetTimer" =>
        /\ ~isRunning
        /\ timeRef = 0
        /\ params.beachSlope = 80
        /\ params.sedimentSupply = 15

====
